---- MODULE Spec2Model ----
(***************************************************************************)
(* Model of src/LakeErie_SurfaceWater_AdaptiveThresholding.js: the Otsu    *)
(* thresholder, the threshold masks, the connected-pixel-count edge filter *)
(* and the distance-transform edge buffer of the adaptive thresholding     *)
(* script, statement by statement.                                         *)
(*                                                                         *)
(* Units: raster values and bucket means are integers in units of one      *)
(* histogram bucket width (0.1 dB, line 167), so that every bucket holds   *)
(* one value and its mean is that value.  Canny magnitudes are integers in *)
(* hundredths (cannyLt = 0.05 is 5).  ee.Number arithmetic is modelled by  *)
(* exact rationals <<numerator, denominator>>.                             *)
(***************************************************************************)
EXTENDS Integers, Sequences, FiniteSets, TLC

VARIABLES
    pc,               \* the next statement of the script to be evaluated
    error,            \* "none", or the Earth Engine error the script ended with
    edgeLength,       \* line 43
    edgeBuffer,       \* line 46
    connectedPixels,  \* line 49
    setResolution,    \* line 32
    s1Mosaic,         \* line 152-155, the single-band raster
    globalHistogram,  \* line 170
    globalThreshold,  \* line 221, <<>> while undefined, <<t>> once computed
    globalWater,      \* line 330
    binary,           \* line 348
    canny,            \* line 355
    connected,        \* line 366
    edges,            \* line 370
    bufferedEdges,    \* line 377
    edgeImage,        \* line 380
    localHistogram,   \* line 395
    localThreshold,   \* line 405, <<>> while undefined, <<t>> once computed
    localWater,       \* line 492
    userSeason,       \* line 28
    userYear,         \* line 29
    seasonStartMonth, \* line 76, <<>> while undefined, <<m>> once assigned
    seasonEndMonth,   \* line 77, <<>> while undefined, <<m>> once assigned
    startDate,        \* line 101, <<>> until built, then <<date>>
    endDate,          \* line 102, <<>> until built, then <<date>>
    s1Collection      \* line 117, <<>> until built, then <<collection>>

vars == <<pc, error, edgeLength, edgeBuffer, connectedPixels, setResolution,
          s1Mosaic, globalHistogram, globalThreshold, globalWater, binary,
          canny, connected, edges, bufferedEdges, edgeImage, localHistogram,
          localThreshold, localWater, userSeason, userYear, seasonStartMonth,
          seasonEndMonth, startDate, endDate, s1Collection>>

\* what lines 28-120 set
seasonVars == <<userSeason, userYear, seasonStartMonth, seasonEndMonth,
                startDate, endDate, s1Collection>>

\* what lines 166-492 set
pipelineVars == <<edgeLength, edgeBuffer, connectedPixels, setResolution,
                  s1Mosaic, globalHistogram, globalThreshold, globalWater,
                  binary, canny, connected, edges, bufferedEdges, edgeImage,
                  localHistogram, localThreshold, localWater>>

(***************************************************************************)
(* Bounds of the model.                                                    *)
(***************************************************************************)
MaxBuckets == 4      \* longest histogram drawn for otsu()
MaxCount == 2        \* largest bucket count drawn for otsu()
MaxMean == 2         \* bucket means are drawn from -MaxMean .. MaxMean
GridW == 3           \* columns of the raster grid
GridH == 2           \* rows of the raster grid
MaxValue == 2        \* raster values of the pipeline are drawn from 0 .. MaxValue

MinMean == 0 - MaxMean

(***************************************************************************)
(* ee.Number arithmetic, exact.  A number is <<n, d>> with d > 0 in lowest *)
(* terms.                                                                  *)
(***************************************************************************)
Abs(n) == IF n < 0 THEN 0 - n ELSE n

RECURSIVE GCD(_, _)
GCD(a, b) == IF b = 0 THEN a ELSE GCD(b, a % b)

Norm(n, d) ==
    LET g == GCD(Abs(n), d)
    IN  <<n \div g, d \div g>>

Num(n) == <<n, 1>>

add(x, y) ==
    LET l == (x[2] \div GCD(x[2], y[2])) * y[2]
    IN  Norm(x[1] * (l \div x[2]) + y[1] * (l \div y[2]), l)

subtract(x, y) == add(x, <<0 - y[1], y[2]>>)

multiply(x, y) ==
    LET a == Norm(x[1], y[2])
        b == Norm(y[1], x[2])
    IN  <<a[1] * b[1], a[2] * b[2]>>

\* ee.Number.divide returns 0 for a division by 0.
divide(x, y) ==
    IF y[1] = 0 THEN Num(0)
    ELSE IF y[1] > 0 THEN multiply(x, <<y[2], y[1]>>)
    ELSE multiply(x, <<0 - y[2], 0 - y[1]>>)

pow2(x) == multiply(x, x)

\* a/b < c/d for b, d > 0, by the continued-fraction expansion of both sides
RECURSIVE FracLess(_, _, _, _)
FracLess(a, b, c, d) ==
    LET qa == a \div b
        qc == c \div d
        ra == a % b
        rc == c % d
    IN  IF qa # qc THEN qa < qc
        ELSE IF rc = 0 THEN FALSE
        ELSE IF ra = 0 THEN TRUE
        ELSE FracLess(d, rc, b, ra)

numLt(x, y) == FracLess(x[1], x[2], y[1], y[2])

numLte(x, y) == ~numLt(y, x)

(***************************************************************************)
(* Sequences as ee.Array / ee.List.                                        *)
(***************************************************************************)
RECURSIVE SumSeq(_)
SumSeq(s) == IF s = <<>> THEN 0 ELSE Head(s) + SumSeq(Tail(s))

\* ee.Array.slice(0, 0, i): the first i elements
slice(s, i) == SubSeq(s, 1, i)

\* element-wise product of two arrays of equal length
multiplyArrays(s, t) == [j \in 1..Len(s) |-> s[j] * t[j]]

\* the orders of the positions I that are ascending in the keys: a position
\* of least key first, then the rest in the same way
RECURSIVE Ascending(_, _)
Ascending(I, keys) ==
    IF I = {} THEN {<<>>}
    ELSE UNION {{<<i>> \o rest : rest \in Ascending(I \ {i}, keys)} :
                   i \in {j \in I : \A k \in I : numLte(keys[j], keys[k])}}

\* ee.Array.sort(keys): the elements in ascending order of their keys.  The
\* order of elements with equal keys is not specified, so every order that is
\* ascending in the keys is a possible result.
sort(values, keys) ==
    {[i \in 1..Len(values) |-> values[p[i]]] :
        p \in Ascending(1..Len(values), keys)}

\* ee.Array.get([-1]): the last element
getLast(s) == s[Len(s)]

(***************************************************************************)
(* otsu(histogram), lines 182-213.                                         *)
(***************************************************************************)
NullHistogram == [bucketMeans |-> <<>>, histogram |-> <<>>]

\* line 195: ee.List.sequence(1, size)
indices(size) == [i \in 1..size |-> i]

\* lines 197-199: the count of class A, the first i buckets
aCountAt(histogram, i) == Num(SumSeq(slice(histogram.histogram, i)))

\* line 204: the count of class B, total.subtract(aCount)
bCountAt(histogram, i) ==
    subtract(Num(SumSeq(histogram.histogram)), aCountAt(histogram, i))

\* lines 196-210: the between sum of squares of the split after the first i
\* buckets
bssAt(histogram, i) ==
    LET counts == histogram.histogram
        means == histogram.bucketMeans
        total == Num(SumSeq(counts))
        sum == Num(SumSeq(multiplyArrays(means, counts)))
        mean == divide(sum, total)
        aCounts == slice(counts, i)
        aCount == aCountAt(histogram, i)
        aMeans == slice(means, i)
        aMean == divide(Num(SumSeq(multiplyArrays(aMeans, aCounts))), aCount)
        bCount == bCountAt(histogram, i)
        bMean == divide(subtract(sum, multiply(aCount, aMean)), bCount)
    IN  add(multiply(aCount, pow2(subtract(aMean, mean))),
            multiply(bCount, pow2(subtract(bMean, mean))))

\* ee.List.map of lines 196-210 over a list of split indices
RECURSIVE mapBss(_, _)
mapBss(histogram, list) ==
    IF list = <<>> THEN <<>>
    ELSE <<bssAt(histogram, Head(list))>> \o mapBss(histogram, Tail(list))

\* bss as ee.List.sequence(0, size - 1) at line 195 would give it
bssFromZero(histogram) ==
    mapBss(histogram, [i \in 1..Len(histogram.bucketMeans) |-> i - 1])

\* line 196: indices.map(...)
bss(histogram) == mapBss(histogram, indices(Len(histogram.bucketMeans)))

\* pick as get([0]) at line 212 would give it
pickFirst(sorted) == sorted[1]

\* line 212: which element of the sorted means is returned
pick(sorted) == getLast(sorted)

\* The values otsu(histogram) can return: means.sort(bss).get([-1]) for every
\* order the sort may leave equal keys in.
otsu(histogram) ==
    LET keys == bss(histogram)
    IN  {pick(s) : s \in sort(histogram.bucketMeans, keys)}

(***************************************************************************)
(* Histograms drawn for otsu(): bucket means strictly increasing, counts   *)
(* non-negative, at least one sample.                                      *)
(***************************************************************************)
Increasing(s) == \A i \in 1..(Len(s) - 1) : s[i] < s[i + 1]

BucketMeans ==
    UNION {{x \in [1..n -> MinMean..MaxMean] : Increasing(x)} : n \in 1..MaxBuckets}

BucketCounts ==
    UNION {{x \in [1..n -> 0..MaxCount] : \E i \in 1..n : x[i] > 0} :
              n \in 1..MaxBuckets}

Histograms ==
    {[bucketMeans |-> p[1], histogram |-> p[2]] :
        p \in {q \in BucketMeans \X BucketCounts : Len(q[1]) = Len(q[2])}}

(***************************************************************************)
(* Images.  An image maps every cell of the grid to a pixel [m, v]: m is   *)
(* the mask (FALSE is no-data) and v the value (0 under the mask).         *)
(***************************************************************************)
Cells == (1..GridW) \X (1..GridH)

Masked == [m |-> FALSE, v |-> 0]

Pixel(value) == [m |-> TRUE, v |-> value]

EmptyImage == [c \in Cells |-> Masked]

\* an image, with the value of every pixel worked out once (comparing a
\* function makes TLC tabulate it); Image(f) = f
Image(f) == IF f = EmptyImage THEN EmptyImage ELSE f

Valid(img) == {c \in Cells : img[c].m}

\* ee.Image.lt(threshold): 1 where the value is below the threshold, 0
\* elsewhere; the mask of the input is kept.
imageLt(img, threshold) ==
    Image([c \in Cells |->
        IF img[c].m
        THEN Pixel(IF numLt(Num(img[c].v), threshold) THEN 1 ELSE 0)
        ELSE Masked])

\* ee.Image.gte(value)
imageGte(img, value) ==
    Image([c \in Cells |->
        IF img[c].m THEN Pixel(IF img[c].v >= value THEN 1 ELSE 0) ELSE Masked])

\* updateMask as it would be if the mask image were not applied
updateMaskNotApplied(img, mask) == Image([c \in Cells |-> img[c]])

\* ee.Image.updateMask(mask): a pixel stays valid where it was valid and the
\* mask image is valid and non-zero.
updateMask(img, mask) ==
    Image([c \in Cells |->
        IF img[c].m /\ mask[c].m /\ mask[c].v # 0 THEN img[c] ELSE Masked])

\* d is a neighbour of c under 4- or 8-connectedness
Neighbours(c, d, eightConnected) ==
    /\ d # c
    /\ Abs(d[1] - c[1]) <= 1
    /\ Abs(d[2] - c[2]) <= 1
    /\ (eightConnected \/ d[1] = c[1] \/ d[2] = c[2])

RECURSIVE Grow(_, _, _)
Grow(img, eightConnected, S) ==
    LET T == S \cup {d \in Valid(img) \ S :
                        \E c \in S : /\ Neighbours(c, d, eightConnected)
                                     /\ img[d].v = img[c].v}
    IN  IF T = S THEN S ELSE Grow(img, eightConnected, T)

\* the connected component of equal-valued valid pixels that holds cell c
Component(img, eightConnected, c) == Grow(img, eightConnected, {c})

Min(a, b) == IF a < b THEN a ELSE b

\* connectedPixelCount as a count over the 3 x 3 window of each pixel would
\* give it
connectedPixelCountInWindow(img, maxSize, eightConnected) ==
    Image([c \in Cells |->
        IF img[c].m
        THEN Pixel(Min(Cardinality({c} \cup
                           {d \in Valid(img) :
                               /\ Neighbours(c, d, eightConnected)
                               /\ img[d].v = img[c].v}),
                       maxSize))
        ELSE Masked])

\* ee.Image.connectedPixelCount(maxSize, eightConnected): every valid pixel
\* gets the number of pixels connected to it (itself included), counted up to
\* maxSize.
connectedPixelCount(img, maxSize, eightConnected) ==
    Image([c \in Cells |->
        IF img[c].m
        THEN Pixel(Min(Cardinality(Component(img, eightConnected, c)), maxSize))
        ELSE Masked])

\* fastDistanceTransform's default neighborhood (line 377 passes no argument)
neighborhood == 256

SetMin(S) == CHOOSE x \in S : \A y \in S : x <= y

SetMax(S) == CHOOSE x \in S : \A y \in S : x >= y

\* the metric of the distance between two cells, in pixels: line 377 passes no
\* metric, and the default metric of fastDistanceTransform is
\* 'squared_euclidean'
metric(c, d) == (c[1] - d[1]) * (c[1] - d[1]) + (c[2] - d[2]) * (c[2] - d[2])

\* ee.Image.fastDistanceTransform(): the distance of every cell to the nearest
\* non-zero valued pixel of the input
fastDistanceTransform(img) ==
    LET NonZero == {d \in Valid(img) : img[d].v # 0}
    IN  Image([c \in Cells |->
            Pixel(IF NonZero = {} THEN neighborhood * neighborhood
                  ELSE SetMin({metric(c, d) : d \in NonZero}))])

(***************************************************************************)
(* ee.Reducer.histogram over the valid pixels of an image (lines 167-177,  *)
(* 395-402): one bucket per value from the least to the greatest value     *)
(* present, null when the region holds no valid pixel.                     *)
(***************************************************************************)
reduceRegion(img) ==
    LET values == {img[c].v : c \in Valid(img)}
    IN  IF values = {} THEN NullHistogram
        ELSE LET lo == SetMin(values)
                 hi == SetMax(values)
             IN  [bucketMeans |-> [i \in 1..(hi - lo + 1) |-> lo + i - 1],
                  histogram |->
                      [i \in 1..(hi - lo + 1) |->
                          Cardinality({c \in Valid(img) : img[c].v = lo + i - 1})]]

(***************************************************************************)
(* The parameters of the script, lines 27-61.                              *)
(***************************************************************************)
cannyThreshold == 100   \* line 55, in hundredths
cannyLt == 5            \* line 61, in hundredths

\* commonGrid.projection().nominalScale(), lines 123-124, 352, 374: the scale
\* of the Sentinel-1 reference image, which reproject (line 130) does not touch
nominalScale == 10

EdgeLengths == {2, 3, 25}
EdgeBuffers == {0, 30, 60}
ConnectedPixels == {2, 100}
Resolutions == {10, 30}

\* line 373: ee.Number(edgeBuffer).divide(imageProj.nominalScale())
edgeBufferPixelOf(buffer) == divide(Num(buffer), Num(nominalScale))

\* line 366, the image handed to connectedPixelCount
cannyEdges(cannyImage) == imageLt(updateMask(cannyImage, cannyImage), Num(cannyLt))

\* line 366-367
connectedOf(cannyImage, maxSize) ==
    connectedPixelCount(cannyEdges(cannyImage), maxSize, TRUE)

\* edgesOf as gt(edgeLength) would give it
edgesOfGt(connectedImage, minLength) == imageGte(connectedImage, minLength + 1)

\* line 370
edgesOf(connectedImage, minLength) == imageGte(connectedImage, minLength)

\* bufferedEdgesOf as gt(edgeBufferPixel) would give it
bufferedEdgesOfGt(edgeMask, buffer) ==
    LET distance == fastDistanceTransform(edgeMask)
    IN  Image([c \in Cells |->
            Pixel(IF numLt(edgeBufferPixelOf(buffer), Num(distance[c].v))
                  THEN 1 ELSE 0)])

\* bufferedEdgesOf as lte(edgeBufferPixel) would give it
bufferedEdgesOfLte(edgeMask, buffer) ==
    LET distance == fastDistanceTransform(edgeMask)
    IN  Image([c \in Cells |->
            Pixel(IF numLte(Num(distance[c].v), edgeBufferPixelOf(buffer))
                  THEN 1 ELSE 0)])

\* line 377
bufferedEdgesOf(edgeMask, buffer) ==
    imageLt(fastDistanceTransform(edgeMask), edgeBufferPixelOf(buffer))

\* waterOf as lte(threshold) would give it
waterOfLte(raster, threshold) ==
    Image([c \in Cells |->
        IF raster[c].m
        THEN Pixel(IF raster[c].v <= threshold THEN 1 ELSE 0)
        ELSE Masked])

\* lines 330, 348, 492: s1Mosaic.select(band).lt(threshold)
waterOf(raster, threshold) == imageLt(raster, Num(threshold))

\* ee.Algorithms.CannyEdgeDetector (lines 355-359) is not code of the script:
\* its output is any image over the valid pixels of its input whose non-zero
\* values are gradient magnitudes above the threshold.
CannyOutputs(img) ==
    {[c \in Cells |-> IF c \in E THEN Pixel(cannyThreshold + 1)
                      ELSE IF img[c].m THEN Pixel(0) ELSE Masked] :
        E \in SUBSET Valid(img)}

(***************************************************************************)
(* The season, the date window and the image collection, lines 27-120.     *)
(***************************************************************************)
MaxYear == 2024

\* userYear, line 29: the years Sentinel-1 has images for
Years == 2015..MaxYear

\* the seasons the switch at lines 79-98 has a case for
Seasons == {"Fall", "Winter", "Spring", "Summer"}

\* userSeason, line 28: the four seasons and values that are none of them
UserSeasons == Seasons \cup {"Autumn", "summer", ""}

\* a JavaScript variable that was declared and never assigned
undefined == <<>>

\* lines 79-98: the months each case assigns; the default case assigns nothing
seasonMonths(season) ==
    CASE season = "Fall" -> [start |-> <<9>>, end |-> <<11>>]
      [] season = "Winter" -> [start |-> <<12>>, end |-> <<2>>]
      [] season = "Spring" -> [start |-> <<3>>, end |-> <<5>>]
      [] season = "Summer" -> [start |-> <<6>>, end |-> <<8>>]
      [] OTHER -> [start |-> undefined, end |-> undefined]

\* ee.Date.fromYMD(year, month, day), lines 105-110.  month is a required
\* argument: given undefined, the client library either rejects the call
\* (thrown) or hands the request on without a month; both outcomes are kept.
fromYMD(year, month, day) ==
    IF month = undefined
    THEN {[thrown |-> TRUE, year |-> year, month |-> undefined, day |-> day],
          [thrown |-> FALSE, year |-> year, month |-> undefined, day |-> day]}
    ELSE {[thrown |-> FALSE, year |-> year, month |-> month, day |-> day]}

\* ee.Date.advance(1, 'month'), lines 106 and 109
advance(date) ==
    IF date.month = undefined THEN date
    ELSE IF date.month[1] = 12
         THEN [date EXCEPT !.year = date.year + 1, !.month = <<1>>]
         ELSE [date EXCEPT !.month = <<date.month[1] + 1>>]

\* lines 117-120: the collection filtered to the date window
filterDate(start, end) == [start |-> start, end |-> end]

\* the state lines 28-120 leave with the values the script sets at lines 28-29
SeasonOfScript ==
    /\ userSeason = "Summer"
    /\ userYear = 2023
    /\ seasonStartMonth = seasonMonths(userSeason).start
    /\ seasonEndMonth = seasonMonths(userSeason).end
    /\ startDate =
           <<[thrown |-> FALSE, year |-> userYear, month |-> seasonStartMonth,
              day |-> 1]>>
    /\ endDate =
           <<advance([thrown |-> FALSE, year |-> userYear,
                      month |-> seasonEndMonth, day |-> 1])>>
    /\ s1Collection = <<filterDate(startDate[1], endDate[1])>>

(***************************************************************************)
(* The script, lines 166-492, one action per stage.  pc names the last     *)
(* stage that was evaluated.                                               *)
(***************************************************************************)
\* s1Mosaic (lines 149-155): clipped to the study area, so masked outside it,
\* and masked inside it where no image covers a cell
Block == (1..2) \X (1..2)

StudyAreas == {Block, Block \ {<<1, 1>>}, {}}

Rasters ==
    UNION {{[c \in Cells |-> IF c \in area THEN Pixel(f[c]) ELSE Masked] :
               f \in [area -> 0..MaxValue]} : area \in StudyAreas}

\* edgeBuffer for the whole script: the value of line 46, and one small
\* enough that the buffer covers part of the raster only
ScriptEdgeBuffers == {10, 60}

Init ==
    /\ pc = "Start"
    /\ SeasonOfScript
    /\ error = "none"
    /\ edgeLength \in EdgeLengths
    /\ edgeBuffer \in ScriptEdgeBuffers
    /\ connectedPixels = 100
    /\ setResolution = 30
    /\ s1Mosaic \in Rasters
    /\ globalHistogram = NullHistogram
    /\ globalThreshold = <<>>
    /\ globalWater = EmptyImage
    /\ binary = EmptyImage
    /\ canny = EmptyImage
    /\ connected = EmptyImage
    /\ edges = EmptyImage
    /\ bufferedEdges = EmptyImage
    /\ edgeImage = EmptyImage
    /\ localHistogram = NullHistogram
    /\ localThreshold = <<>>
    /\ localWater = EmptyImage

\* lines 166-221: the global histogram and its Otsu threshold.  otsu() reads
\* the entries of the histogram, which fails on the null that reduceRegion
\* gives for a region without valid pixels.
GlobalPass ==
    /\ pc = "Start"
    /\ LET histogram == reduceRegion(s1Mosaic)
       IN  /\ globalHistogram' = histogram
           /\ IF histogram = NullHistogram
              THEN /\ globalThreshold' = <<>>
                   /\ error' = "NullHistogram"
                   /\ pc' = "Failed"
              ELSE /\ \E t \in otsu(histogram) : globalThreshold' = <<t>>
                   /\ error' = error
                   /\ pc' = "GlobalPass"
    /\ UNCHANGED seasonVars
    /\ UNCHANGED <<edgeLength, edgeBuffer, connectedPixels, setResolution,
                   s1Mosaic, globalWater, binary, canny, connected, edges,
                   bufferedEdges, edgeImage, localHistogram, localThreshold,
                   localWater>>

\* lines 330-349: globalWater, and binary from initialThreshold = globalThreshold
PreliminaryClassified ==
    /\ pc = "GlobalPass"
    /\ globalWater' = waterOf(s1Mosaic, globalThreshold[1])
    /\ binary' = waterOf(s1Mosaic, globalThreshold[1])
    /\ pc' = "PreliminaryClassified"
    /\ UNCHANGED seasonVars
    /\ UNCHANGED <<error, edgeLength, edgeBuffer, connectedPixels,
                   setResolution, s1Mosaic, globalHistogram, globalThreshold,
                   canny, connected, edges, bufferedEdges, edgeImage,
                   localHistogram, localThreshold, localWater>>

\* lines 355-359
EdgesDetected ==
    /\ pc = "PreliminaryClassified"
    /\ canny' \in CannyOutputs(binary)
    /\ pc' = "EdgesDetected"
    /\ UNCHANGED seasonVars
    /\ UNCHANGED <<error, edgeLength, edgeBuffer, connectedPixels,
                   setResolution, s1Mosaic, globalHistogram, globalThreshold,
                   globalWater, binary, connected, edges, bufferedEdges,
                   edgeImage, localHistogram, localThreshold, localWater>>

\* lines 366-370
EdgesFiltered ==
    /\ pc = "EdgesDetected"
    /\ LET counted == connectedOf(canny, connectedPixels)
       IN  /\ connected' = counted
           /\ edges' = edgesOf(counted, edgeLength)
    /\ pc' = "EdgesFiltered"
    /\ UNCHANGED seasonVars
    /\ UNCHANGED <<error, edgeLength, edgeBuffer, connectedPixels,
                   setResolution, s1Mosaic, globalHistogram, globalThreshold,
                   globalWater, binary, canny, bufferedEdges, edgeImage,
                   localHistogram, localThreshold, localWater>>

\* lines 373-377
Buffered ==
    /\ pc = "EdgesFiltered"
    /\ bufferedEdges' = bufferedEdgesOf(edges, edgeBuffer)
    /\ pc' = "Buffered"
    /\ UNCHANGED seasonVars
    /\ UNCHANGED <<error, edgeLength, edgeBuffer, connectedPixels,
                   setResolution, s1Mosaic, globalHistogram, globalThreshold,
                   globalWater, binary, canny, connected, edges, edgeImage,
                   localHistogram, localThreshold, localWater>>

\* lines 380-405: the histogram of the raster under the buffer and its Otsu
\* threshold
AdaptivePass ==
    /\ pc = "Buffered"
    /\ LET masked == updateMask(s1Mosaic, bufferedEdges)
           histogram == reduceRegion(masked)
       IN  /\ edgeImage' = masked
           /\ localHistogram' = histogram
           /\ IF histogram = NullHistogram
              THEN /\ localThreshold' = <<>>
                   /\ error' = "NullHistogram"
                   /\ pc' = "Failed"
              ELSE /\ \E t \in otsu(histogram) : localThreshold' = <<t>>
                   /\ error' = error
                   /\ pc' = "AdaptivePass"
    /\ UNCHANGED seasonVars
    /\ UNCHANGED <<edgeLength, edgeBuffer, connectedPixels, setResolution,
                   s1Mosaic, globalHistogram, globalThreshold, globalWater,
                   binary, canny, connected, edges, bufferedEdges, localWater>>

\* line 492
Done ==
    /\ pc = "AdaptivePass"
    /\ localWater' = waterOf(s1Mosaic, localThreshold[1])
    /\ pc' = "Done"
    /\ UNCHANGED seasonVars
    /\ UNCHANGED <<error, edgeLength, edgeBuffer, connectedPixels,
                   setResolution, s1Mosaic, globalHistogram, globalThreshold,
                   globalWater, binary, canny, connected, edges, bufferedEdges,
                   edgeImage, localHistogram, localThreshold>>

Next ==
    \/ GlobalPass
    \/ PreliminaryClassified
    \/ EdgesDetected
    \/ EdgesFiltered
    \/ Buffered
    \/ AdaptivePass
    \/ Done

Spec == Init /\ [][Next]_vars

(***************************************************************************)
(* otsu() on its own: any histogram, then one call (lines 182-213).        *)
(***************************************************************************)
InitOtsu ==
    /\ pc = "otsu"
    /\ SeasonOfScript
    /\ error = "none"
    /\ edgeLength = 25
    /\ edgeBuffer = 60
    /\ connectedPixels = 100
    /\ setResolution = 30
    /\ s1Mosaic = EmptyImage
    /\ globalHistogram \in Histograms
    /\ globalThreshold = <<>>
    /\ globalWater = EmptyImage
    /\ binary = EmptyImage
    /\ canny = EmptyImage
    /\ connected = EmptyImage
    /\ edges = EmptyImage
    /\ bufferedEdges = EmptyImage
    /\ edgeImage = EmptyImage
    /\ localHistogram = NullHistogram
    /\ localThreshold = <<>>
    /\ localWater = EmptyImage

OtsuCall ==
    /\ pc = "otsu"
    /\ \E t \in otsu(globalHistogram) : globalThreshold' = <<t>>
    /\ pc' = "otsuReturned"
    /\ UNCHANGED seasonVars
    /\ UNCHANGED <<error, edgeLength, edgeBuffer, connectedPixels,
                   setResolution, s1Mosaic, globalHistogram, globalWater,
                   binary, canny, connected, edges, bufferedEdges, edgeImage,
                   localHistogram, localThreshold, localWater>>

NextOtsu == OtsuCall

SpecOtsu == InitOtsu /\ [][NextOtsu]_vars

(***************************************************************************)
(* The edge stages on their own (lines 355-377): any Canny output over a   *)
(* raster, any setting of the parameters of lines 32-49.                   *)
(***************************************************************************)
\* a raster whose preliminary classification has both classes
SampleRaster == [c \in Cells |-> Pixel((c[1] + c[2]) % (MaxValue + 1))]

InitEdges ==
    /\ pc = "EdgesDetected"
    /\ SeasonOfScript
    /\ error = "none"
    /\ edgeLength \in EdgeLengths
    /\ edgeBuffer \in EdgeBuffers
    /\ connectedPixels \in ConnectedPixels
    /\ setResolution \in Resolutions
    /\ s1Mosaic = SampleRaster
    /\ globalHistogram = reduceRegion(s1Mosaic)
    /\ \E t \in otsu(globalHistogram) : globalThreshold = <<t>>
    /\ globalWater = waterOf(s1Mosaic, globalThreshold[1])
    /\ binary = globalWater
    /\ canny \in CannyOutputs(binary)
    /\ connected = EmptyImage
    /\ edges = EmptyImage
    /\ bufferedEdges = EmptyImage
    /\ edgeImage = EmptyImage
    /\ localHistogram = NullHistogram
    /\ localThreshold = <<>>
    /\ localWater = EmptyImage

NextEdges == EdgesFiltered \/ Buffered

SpecEdges == InitEdges /\ [][NextEdges]_vars

(***************************************************************************)
(* Lines 28-120 on their own: any season and year, then the switch, the    *)
(* date window and the collection.                                         *)
(***************************************************************************)
InitSeason ==
    /\ pc = "Script"
    /\ error = "none"
    /\ userSeason \in UserSeasons
    /\ userYear \in Years
    /\ seasonStartMonth = undefined
    /\ seasonEndMonth = undefined
    /\ startDate = <<>>
    /\ endDate = <<>>
    /\ s1Collection = <<>>
    /\ edgeLength = 25
    /\ edgeBuffer = 60
    /\ connectedPixels = 100
    /\ setResolution = 30
    /\ s1Mosaic = EmptyImage
    /\ globalHistogram = NullHistogram
    /\ globalThreshold = <<>>
    /\ globalWater = EmptyImage
    /\ binary = EmptyImage
    /\ canny = EmptyImage
    /\ connected = EmptyImage
    /\ edges = EmptyImage
    /\ bufferedEdges = EmptyImage
    /\ edgeImage = EmptyImage
    /\ localHistogram = NullHistogram
    /\ localThreshold = <<>>
    /\ localWater = EmptyImage

\* lines 76-98: the switch; its default case prints a message and assigns
\* nothing, and the script goes on
SeasonSwitch ==
    /\ pc = "Script"
    /\ seasonStartMonth' = seasonMonths(userSeason).start
    /\ seasonEndMonth' = seasonMonths(userSeason).end
    /\ pc' = "SeasonSwitch"
    /\ UNCHANGED <<error, userSeason, userYear, startDate, endDate,
                   s1Collection>>
    /\ UNCHANGED pipelineVars

\* lines 101-111: startDate and endDate; the script ends where fromYMD throws
DateWindow ==
    /\ pc = "SeasonSwitch"
    /\ LET startYear ==
               IF userSeason = "Winter" /\ seasonStartMonth = <<12>>
               THEN userYear - 1 ELSE userYear
       IN  \E start \in fromYMD(startYear, seasonStartMonth, 1),
              end \in fromYMD(userYear, seasonEndMonth, 1) :
               IF start.thrown \/ end.thrown
               THEN /\ error' = "MissingArgument"
                    /\ pc' = "Failed"
                    /\ UNCHANGED <<startDate, endDate>>
               ELSE /\ startDate' = <<start>>
                    /\ endDate' = <<advance(end)>>
                    /\ pc' = "DateWindow"
                    /\ error' = error
    /\ UNCHANGED <<userSeason, userYear, seasonStartMonth, seasonEndMonth,
                   s1Collection>>
    /\ UNCHANGED pipelineVars

\* lines 117-120
Collection ==
    /\ pc = "DateWindow"
    /\ s1Collection' = <<filterDate(startDate[1], endDate[1])>>
    /\ pc' = "Collection"
    /\ UNCHANGED <<error, userSeason, userYear, seasonStartMonth,
                   seasonEndMonth, startDate, endDate>>
    /\ UNCHANGED pipelineVars

NextSeason ==
    \/ SeasonSwitch
    \/ DateWindow
    \/ Collection

SpecSeason == InitSeason /\ [][NextSeason]_vars

(***************************************************************************)
(* Properties of otsu(), checked under SpecOtsu.                           *)
(***************************************************************************)
NonEmptyBuckets(h) == {i \in 1..Len(h.histogram) : h.histogram[i] > 0}

\* the sum of count * mean over the buckets I
ClassSum(h, I) ==
    SumSeq([i \in 1..Len(h.histogram) |->
               IF i \in I THEN h.histogram[i] * h.bucketMeans[i] ELSE 0])

ClassCount(h, I) ==
    SumSeq([i \in 1..Len(h.histogram) |-> IF i \in I THEN h.histogram[i] ELSE 0])

\* count * (classMean - grandMean)^2 of the class of the buckets I; a class
\* without samples contributes nothing
ClassTerm(h, I) ==
    LET all == 1..Len(h.histogram)
        grandMean == divide(Num(ClassSum(h, all)), Num(ClassCount(h, all)))
        classMean == divide(Num(ClassSum(h, I)), Num(ClassCount(h, I)))
    IN  IF ClassCount(h, I) = 0 THEN Num(0)
        ELSE multiply(Num(ClassCount(h, I)), pow2(subtract(classMean, grandMean)))

\* BSS(k): class A is the first k buckets, class B the rest
BSS(h, k) ==
    add(ClassTerm(h, 1..k), ClassTerm(h, (k + 1)..Len(h.histogram)))

ValidSplits(h) == 1..(Len(h.histogram) - 1)

\* <<BSS(1), ..., BSS(n)>>
RECURSIVE BSSUpTo(_, _)
BSSUpTo(h, n) == IF n = 0 THEN <<>> ELSE Append(BSSUpTo(h, n - 1), BSS(h, n))

\* the valid splits whose BSS is at least the BSS of every valid split
Maximisers(h) ==
    LET B == BSSUpTo(h, Len(h.histogram) - 1)
    IN  {k \in ValidSplits(h) : \A j \in ValidSplits(h) : numLte(B[j], B[k])}

Maximises(h, k) == k \in Maximisers(h)

\* the position (counted from 1) of a bucket mean in the histogram
PositionOf(h, t) == CHOOSE i \in 1..Len(h.bucketMeans) : h.bucketMeans[i] = t

OtsuReturned == pc = "otsuReturned"

\* C1: for a histogram with at least two non-empty buckets, the split that
\* otsu() pairs with the mean it returns (class A = the buckets up to and
\* including the returned one) is a valid split and its BSS is at least the
\* BSS of every valid split.
C1_OtsuMaximisesBSS ==
    (OtsuReturned /\ Cardinality(NonEmptyBuckets(globalHistogram)) >= 2) =>
        LET kstar == PositionOf(globalHistogram, globalThreshold[1])
        IN  /\ kstar \in ValidSplits(globalHistogram)
            /\ Maximises(globalHistogram, kstar)

\* a call on three or more buckets where some valid split has a smaller BSS
\* than the returned one
C1_Witness ==
    /\ OtsuReturned
    /\ Len(globalHistogram.histogram) >= 3
    /\ Cardinality(NonEmptyBuckets(globalHistogram)) >= 3
    /\ ValidSplits(globalHistogram) \ Maximisers(globalHistogram) # {}

\* C2 as claimed: the returned threshold is means[k*] counted from 0, the
\* first bucket of class B of a maximising split k*.
C2_ReturnsFirstBucketOfClassB ==
    (OtsuReturned /\ Cardinality(NonEmptyBuckets(globalHistogram)) >= 2) =>
        \E k \in Maximisers(globalHistogram) :
            globalThreshold[1] = globalHistogram.bucketMeans[k + 1]

\* C2 amended: the returned threshold is always one of the bucket means, and
\* with at least two non-empty buckets it is means[k* - 1] counted from 0, the
\* last bucket of class A of a maximising split k*.
C2_ReturnsLastBucketOfClassA ==
    OtsuReturned =>
        /\ \E i \in 1..Len(globalHistogram.bucketMeans) :
               globalThreshold[1] = globalHistogram.bucketMeans[i]
        /\ Cardinality(NonEmptyBuckets(globalHistogram)) >= 2 =>
               \E k \in Maximisers(globalHistogram) :
                   globalThreshold[1] = globalHistogram.bucketMeans[k]

\* a call whose only maximising split is an inner one, between non-empty
\* buckets
C2_Witness ==
    /\ OtsuReturned
    /\ NonEmptyBuckets(globalHistogram) = 1..Len(globalHistogram.histogram)
    /\ \E k \in ValidSplits(globalHistogram) :
           /\ k >= 2
           /\ globalThreshold[1] = globalHistogram.bucketMeans[k]
           /\ Maximisers(globalHistogram) = {k}

(***************************************************************************)
(* Properties of the pipeline, checked under Spec.                         *)
(***************************************************************************)
\* all the mass of the histogram is in a single bucket
Degenerate(h) == Cardinality(NonEmptyBuckets(h)) = 1

\* C4: a histogram with all its mass in one bucket makes the thresholding
\* fail with DegenerateHistogramError and leaves the threshold undefined, in
\* the global and in the adaptive pass.
C4_DegenerateHistogramFails ==
    /\ Degenerate(globalHistogram) =>
           (error = "DegenerateHistogramError" /\ globalThreshold = <<>>)
    /\ Degenerate(localHistogram) =>
           (error = "DegenerateHistogramError" /\ localThreshold = <<>>)

\* mask is 1 exactly where the raster is below the threshold, 0 on the other
\* valid cells, and no-data where the raster is no-data
IsMaskOf(mask, raster, threshold) ==
    \A c \in Cells :
        IF raster[c].m
        THEN /\ mask[c].m
             /\ mask[c].v \in {0, 1}
             /\ mask[c].v = 1 <=> raster[c].v < threshold
        ELSE ~mask[c].m

GlobalMasksBuilt ==
    pc \in {"PreliminaryClassified", "EdgesDetected", "EdgesFiltered",
            "Buffered", "AdaptivePass", "Done"}

\* C5: globalWater, binary and localWater are 1 exactly on the cells whose
\* raster value is strictly below the threshold, 0 on the other valid cells,
\* and no-data on the no-data cells of the raster.
C5_MaskIsBelowThreshold ==
    /\ GlobalMasksBuilt =>
           /\ IsMaskOf(globalWater, s1Mosaic, globalThreshold[1])
           /\ IsMaskOf(binary, s1Mosaic, globalThreshold[1])
    /\ pc = "Done" => IsMaskOf(localWater, s1Mosaic, localThreshold[1])

\* a finished run whose masks hold a 1, a 0 and a no-data cell, with a cell
\* equal to the threshold
C5_Witness ==
    /\ pc = "Done"
    /\ \E c, d, e \in Cells :
           /\ localWater[c].m /\ localWater[c].v = 1
           /\ localWater[d].m /\ localWater[d].v = 0
           /\ s1Mosaic[d].v = localThreshold[1]
           /\ ~s1Mosaic[e].m /\ e \in Block
    /\ \E c, d \in Cells :
           /\ globalWater[c].m /\ globalWater[c].v = 1
           /\ globalWater[d].m /\ globalWater[d].v = 0

(***************************************************************************)
(* Properties of the edge filter and the edge buffer, checked under        *)
(* SpecEdges.                                                              *)
(***************************************************************************)
\* the edge pixels of the Canny output: its non-zero pixels
EdgePixels == {c \in Cells : canny[c].m /\ canny[c].v # 0}

\* the cells where a mask is 1
Ones(mask) == {c \in Cells : mask[c].m /\ mask[c].v = 1}

RECURSIVE Reach(_, _)
Reach(P, S) ==
    LET T == S \cup {d \in P \ S : \E c \in S : Neighbours(c, d, TRUE)}
    IN  IF T = S THEN S ELSE Reach(P, T)

\* the 8-connected component of edge pixels that holds the edge pixel c
EdgeComponent(c) == Reach(EdgePixels, {c})

EdgesBuilt == pc \in {"EdgesFiltered", "Buffered"}

\* C6 as claimed: the filtered edge mask is 1 exactly on the pixels of the
\* connected components of edge pixels that have at least edgeLength pixels.
C6_KeepsComponentsOfMinLength ==
    EdgesBuilt =>
        Ones(edges) =
            {c \in EdgePixels : Cardinality(EdgeComponent(c)) >= edgeLength}

\* C6 amended: the filtered edge mask is 1 exactly on the pixels of the
\* connected components of edge pixels whose pixel count, counted no further
\* than connectedPixels, is at least edgeLength; the other edge pixels are 0
\* and the rest is no-data.  A component of 5 pixels is removed entirely
\* with edgeLength = 25.
C6_KeepsComponentsOfCappedLength ==
    EdgesBuilt =>
        /\ Ones(edges) =
               {c \in EdgePixels :
                   Min(Cardinality(EdgeComponent(c)), connectedPixels) >= edgeLength}
        /\ Valid(edges) = EdgePixels
        /\ \A c \in EdgePixels :
               (Cardinality(EdgeComponent(c)) = 5 /\ edgeLength = 25) =>
                   EdgeComponent(c) \cap Ones(edges) = {}

\* the filter has kept one component and removed another, shorter one
C6_Witness ==
    /\ EdgesBuilt
    /\ \E c, d \in EdgePixels :
           /\ c \in Ones(edges)
           /\ d \notin Ones(edges)
           /\ Cardinality(EdgeComponent(d)) < edgeLength
           /\ Cardinality(EdgeComponent(c)) = edgeLength

\* lines 366-370 applied to an edge mask: connectedPixelCount, then gte
EdgeFilter(img) ==
    edgesOf(connectedPixelCount(img, connectedPixels, TRUE), edgeLength)

\* C7: applying the connected-pixel-count filter to its own output, with the
\* same connectedPixels and edgeLength, gives that output again.
C7_EdgeFilterIdempotent ==
    EdgesBuilt => EdgeFilter(edges) = edges

\* a filtered mask with a kept component of two pixels or more and a removed
\* one
C7_Witness ==
    /\ EdgesBuilt
    /\ \E c \in Ones(edges) : Cardinality(EdgeComponent(c)) >= 2
    /\ EdgePixels \ Ones(edges) # {}

\* the squared Euclidean distance, in pixels, from a cell to the nearest
\* surviving edge pixel is below r squared, for r = buffer / resolution
WithinDistance(c, buffer, resolution) ==
    \E e \in Ones(edges) :
        ((c[1] - e[1]) * (c[1] - e[1]) + (c[2] - e[2]) * (c[2] - e[2]))
            * resolution * resolution < buffer * buffer

\* C8: the buffer mask holds exactly the cells whose Euclidean distance in
\* pixels to the nearest surviving edge pixel is strictly below
\* edgeBuffer / setResolution.
C8_BufferIsEuclideanWithinBufferPixels ==
    pc = "Buffered" =>
        Ones(bufferedEdges) =
            {c \in Cells : WithinDistance(c, edgeBuffer, setResolution)}

\* C9: for the same filtered edges, a smaller buffer distance gives a buffer
\* mask inside the mask of a larger one.
C9_BufferMonotonic ==
    pc = "Buffered" =>
        \A d \in EdgeBuffers :
            /\ d <= edgeBuffer =>
                   Ones(bufferedEdgesOf(edges, d)) \subseteq Ones(bufferedEdges)
            /\ d >= edgeBuffer =>
                   Ones(bufferedEdges) \subseteq Ones(bufferedEdgesOf(edges, d))

\* a buffer mask strictly between the mask of a smaller and of a larger
\* buffer distance
C9_Witness ==
    /\ pc = "Buffered"
    /\ \E d1, d2 \in EdgeBuffers :
           /\ d1 < edgeBuffer /\ edgeBuffer < d2
           /\ Ones(bufferedEdgesOf(edges, d1)) # Ones(bufferedEdges)
           /\ Ones(bufferedEdges) # Ones(bufferedEdgesOf(edges, d2))

\* C10 as claimed: with edgeBuffer = 0 the buffer mask is the filtered edge
\* mask.
C10_ZeroBufferIsEdgeMask ==
    (pc = "Buffered" /\ edgeBuffer = 0) => Ones(bufferedEdges) = Ones(edges)

\* C10 amended: with edgeBuffer = 0 the buffer mask is empty, no cell is in
\* it, surviving edge pixels included.
C10_ZeroBufferIsEmpty ==
    (pc = "Buffered" /\ edgeBuffer = 0) =>
        /\ Ones(bufferedEdges) = {}
        /\ \A c \in Cells : bufferedEdges[c].m /\ bufferedEdges[c].v = 0

\* a buffer of 0 around edges that survived the filter
C10_Witness ==
    /\ pc = "Buffered"
    /\ edgeBuffer = 0
    /\ Ones(edges) # {}

(***************************************************************************)
(* C11: the splits otsu() evaluates and the class counts it divides by.    *)
(***************************************************************************)
\* the split indices bss is mapped over (line 195)
EvaluatedSplits(h) ==
    {indices(Len(h.bucketMeans))[j] : j \in 1..Len(h.bucketMeans)}

EndBucketsNonEmpty(h) ==
    /\ h.histogram[1] > 0
    /\ h.histogram[Len(h.histogram)] > 0

\* C11: otsu() evaluates BSS only at the splits k = 1..N-1, and for a
\* histogram whose first and last buckets are non-empty both class counts are
\* positive at every evaluated split, so no mean is computed by dividing by a
\* zero class count.  Stated for the histograms otsu() is specified for, those
\* with at least two non-empty buckets.
C11_NoSplitDividesByZeroCount ==
    (OtsuReturned /\ Cardinality(NonEmptyBuckets(globalHistogram)) >= 2) =>
        \A k \in EvaluatedSplits(globalHistogram) :
            /\ k \in 1..(Len(globalHistogram.bucketMeans) - 1)
            /\ EndBucketsNonEmpty(globalHistogram) =>
                   /\ numLt(Num(0), aCountAt(globalHistogram, k))
                   /\ numLt(Num(0), bCountAt(globalHistogram, k))

(***************************************************************************)
(* C12: the order of the stages and what each is computed from.            *)
(***************************************************************************)
StageOrder ==
    <<"Start", "GlobalPass", "PreliminaryClassified", "EdgesDetected",
      "EdgesFiltered", "Buffered", "AdaptivePass", "Done">>

\* a step from one stage to the one that follows it in StageOrder
StepInOrder ==
    \E i \in 1..(Len(StageOrder) - 1) :
        /\ pc = StageOrder[i]
        /\ pc' = StageOrder[i + 1]

\* a step that ends the run where a histogram has no sample
StepFails ==
    /\ pc \in {"Start", "Buffered"}
    /\ pc' = "Failed"
    /\ error' = "NullHistogram"
    /\ pc = "Start" => Valid(s1Mosaic) = {}
    /\ pc = "Buffered" =>
           {c \in Valid(s1Mosaic) : bufferedEdges[c].v = 1} = {}

Reached(stage) ==
    \E i, j \in 1..Len(StageOrder) :
        /\ StageOrder[i] = stage
        /\ StageOrder[j] = pc
        /\ i <= j

\* the run has ended: pc is not a stage that another stage follows
RunEnded == \A i \in 1..(Len(StageOrder) - 1) : pc # StageOrder[i]

\* the number of samples of value v that histogram h records
SamplesOf(h, v) ==
    IF \E i \in 1..Len(h.bucketMeans) : h.bucketMeans[i] = v
    THEN h.histogram[CHOOSE i \in 1..Len(h.bucketMeans) : h.bucketMeans[i] = v]
    ELSE 0

\* h is the histogram of the raster over the cells S
IsHistogramOver(h, raster, S) ==
    \A v \in 0..MaxValue :
        SamplesOf(h, v) =
            Cardinality({c \in S : raster[c].m /\ raster[c].v = v})

IsBucketMeanOf(threshold, h) ==
    /\ threshold # <<>>
    /\ \E i \in 1..Len(h.bucketMeans) : h.bucketMeans[i] = threshold[1]

\* every stage's output is computed from the outputs of the stages before it
StagesConsumeEarlierOutputs ==
    /\ Reached("GlobalPass") =>
           /\ IsHistogramOver(globalHistogram, s1Mosaic, Cells)
           /\ IsBucketMeanOf(globalThreshold, globalHistogram)
    /\ Reached("PreliminaryClassified") =>
           IsMaskOf(binary, s1Mosaic, globalThreshold[1])
    /\ Reached("EdgesDetected") =>
           \A c \in Cells : (canny[c].m /\ canny[c].v # 0) => binary[c].m
    /\ Reached("EdgesFiltered") =>
           \A c \in Cells :
               (edges[c].m /\ edges[c].v = 1) => (canny[c].m /\ canny[c].v # 0)
    /\ Reached("Buffered") =>
           \A c \in Cells : bufferedEdges[c].v = 1 => Ones(edges) # {}
    /\ Reached("AdaptivePass") =>
           /\ IsHistogramOver(localHistogram, s1Mosaic,
                              {c \in Cells : bufferedEdges[c].v = 1})
           /\ IsBucketMeanOf(localThreshold, localHistogram)
    /\ Reached("Done") =>
           IsMaskOf(localWater, s1Mosaic, localThreshold[1])

\* C12 as stated: every step of a run moves from one stage to the next in the
\* order Start, GlobalPass, PreliminaryClassified, EdgesDetected,
\* EdgesFiltered, Buffered, AdaptivePass, Done, with no other branch; each
\* stage is computed from the outputs of earlier stages; and a run that has
\* ended is in Done with the global and the adaptive threshold defined.
C12_StagesInOrderToDone ==
    /\ [][StepInOrder]_vars
    /\ [](StagesConsumeEarlierOutputs)
    /\ [](RunEnded =>
              (pc = "Done" /\ globalThreshold # <<>> /\ localThreshold # <<>>))

\* C12 amended: every step moves to the next stage in that order, except that
\* GlobalPass and AdaptivePass end the run with an error when their histogram
\* has no sample; each stage is computed from the outputs of earlier stages;
\* a run that has ended is either in Done with both thresholds defined or has
\* failed with that error.
C12_StagesInOrderToDoneOrFailed ==
    /\ [][StepInOrder \/ StepFails]_vars
    /\ [](StagesConsumeEarlierOutputs)
    /\ [](RunEnded =>
              \/ pc = "Done" /\ globalThreshold # <<>> /\ localThreshold # <<>>
              \/ pc = "Failed" /\ error = "NullHistogram")

\* a finished run whose buffer covers some valid cells of the raster and not
\* others, so that the adaptive histogram has fewer samples than the global one
C12_Witness ==
    /\ pc = "Done"
    /\ globalThreshold # <<>>
    /\ localThreshold # <<>>
    /\ \E c, d \in Valid(s1Mosaic) :
           bufferedEdges[c].v = 1 /\ bufferedEdges[d].v = 0
    /\ SumSeq(localHistogram.histogram) < SumSeq(globalHistogram.histogram)

(***************************************************************************)
(* C13: a season that is none of the four.                                 *)
(***************************************************************************)
InvalidSeason == userSeason \notin Seasons

\* C13: when userSeason is not one of Fall, Winter, Spring, Summer, the
\* script has, from the switch on, ended with a validation error, and no
\* date window and no image collection has been built.
C13_InvalidSeasonIsRejected ==
    (InvalidSeason /\ pc # "Script") =>
        /\ error = "InvalidParameterError"
        /\ startDate = <<>>
        /\ endDate = <<>>
        /\ s1Collection = <<>>

====
